---- MODULE Spec2Model ----
(***************************************************************************)
(* Model of the image studio: the record store kept by App (App.tsx), the  *)
(* gateway requests started by Generator and Editor, and the history       *)
(* lineage computed by Editor (Editor.tsx, historyLineage).                *)
(*                                                                         *)
(* A GeneratedImage is modelled by the fields the operations read: id and  *)
(* parentId, and timestamp where the lineage sorts by it.  url, prompt,    *)
(* aspectRatio and model are carried along untouched by every operation    *)
(* and are left out; so is timestamp in the store kept by App, where it    *)
(* is shown as a date (Gallery.tsx 74) and no handler reads it.            *)
(***************************************************************************)
EXTENDS Integers, Sequences, FiniteSets, Bags, TLC

\* ---------------------------------------------------------------- bounds
NumIds == 3        \* distinct record ids the lineage inputs are drawn from
MaxTime == 2       \* timestamps of the lineage inputs are 1..MaxTime
MaxStore == 3      \* longest allImages array given to the lineage
MaxRecords == 2    \* records the gateway produces in one run of the App
MaxInFlight == 2   \* gateway calls outstanding at once

\* ---------------------------------------------------------------- records
\* parentId is optional on a record: 0 stands for "no parentId property".
NoParent == 0

\* `undefined` where a GeneratedImage is expected (Array.prototype.find
\* finding nothing, the loop variable curr after the last ancestor).
Undefined == [id |-> 0, parentId |-> 0, timestamp |-> 0]

Ids == 1..NumIds

GeneratedImage == [id : Ids, parentId : Ids \cup {NoParent}, timestamp : 1..MaxTime]

IdsOf(all) == {all[i].id : i \in 1..Len(all)}

Range(s) == {s[i] : i \in 1..Len(s)}

\* ------------------------------------------------- Editor: historyLineage
\* Find with the predicate written on the wrong property,
\* allImages.find(img => img.parentId === pid).
FindByParentId(all, pid) ==
  IF \E i \in 1..Len(all) : all[i].parentId = pid
  THEN all[CHOOSE i \in 1..Len(all) :
             /\ all[i].parentId = pid
             /\ \A j \in 1..(i - 1) : all[j].parentId # pid]
  ELSE Undefined

\* allImages.find(img => img.id === pid): the first match, else undefined.
Find(all, pid) ==
  IF \E i \in 1..Len(all) : all[i].id = pid
  THEN all[CHOOSE i \in 1..Len(all) :
             /\ all[i].id = pid
             /\ \A j \in 1..(i - 1) : all[j].id # pid]
  ELSE Undefined

\* WalkInit starting from the parent of the focal record.
WalkInitSkipsFocal(img, all) ==
  [curr |-> IF img.parentId # NoParent THEN Find(all, img.parentId) ELSE Undefined,
   visited |-> {}, lineage |-> <<>>, iters |-> 0]

\* The state of the ancestor walk before its first iteration:
\* lineage = [], visited = new Set(), curr = image.
WalkInit(img, all) ==
  [curr |-> img, visited |-> {}, lineage |-> <<>>, iters |-> 0]

\* while (curr) { if (visited.has(curr.id)) break; ... }: the body runs on.
LoopContinues(w) ==
  /\ w.curr # Undefined
  /\ w.curr.id \notin w.visited

\* WalkBody without visited.add(curr.id).
WalkBodyNoMark(w, all) ==
  [curr |-> IF w.curr.parentId # NoParent
            THEN Find(all, w.curr.parentId)
            ELSE Undefined,
   visited |-> w.visited,
   lineage |-> <<w.curr>> \o w.lineage,
   iters |-> w.iters + 1]

\* One pass through the loop body after the break test: mark, unshift, step
\* to the parent (or to undefined).  iters counts these passes.
WalkBody(w, all) ==
  [curr |-> IF w.curr.parentId # NoParent
            THEN Find(all, w.curr.parentId)
            ELSE Undefined,
   visited |-> w.visited \cup {w.curr.id},
   lineage |-> <<w.curr>> \o w.lineage,
   iters |-> w.iters + 1]

RECURSIVE Walk(_, _)
Walk(w, all) ==
  IF LoopContinues(w) THEN Walk(WalkBody(w, all), all) ELSE w

\* Children going two generations down instead of one.
ChildrenOrGrandchildren(img, all) ==
  SelectSeq(all, LAMBDA r :
    \/ r.parentId = img.id
    \/ \E i \in 1..Len(all) : all[i].parentId = img.id /\ r.parentId = all[i].id)

\* allImages.filter(img => img.parentId === image.id)
Children(img, all) ==
  SelectSeq(all, LAMBDA r : r.parentId = img.id)

\* PushChildren without the visited test.
PushChildrenUnchecked(lin, vis, children) ==
  lin \o children

\* children.forEach(child => { if (!visited.has(child.id)) lineage.push(child) })
PushChildren(lin, vis, children) ==
  lin \o SelectSeq(children, LAMBDA c : c.id \notin vis)

\* Insert r behind every element that is not later than r.
RECURSIVE Insert(_, _)
Insert(sorted, r) ==
  IF sorted = <<>> THEN <<r>>
  ELSE IF sorted[Len(sorted)].timestamp <= r.timestamp
       THEN Append(sorted, r)
       ELSE Append(Insert(SubSeq(sorted, 1, Len(sorted) - 1), r),
                   sorted[Len(sorted)])

\* Insert r in front of the elements with r's timestamp.
RECURSIVE InsertBeforeEqual(_, _)
InsertBeforeEqual(sorted, r) ==
  IF sorted = <<>> THEN <<r>>
  ELSE IF sorted[Len(sorted)].timestamp < r.timestamp
       THEN Append(sorted, r)
       ELSE Append(InsertBeforeEqual(SubSeq(sorted, 1, Len(sorted) - 1), r),
                   sorted[Len(sorted)])

\* Insertion of rest, left to right, into sorted.
RECURSIVE SortFrom(_, _)
SortFrom(sorted, rest) ==
  IF rest = <<>> THEN sorted
  ELSE SortFrom(Insert(sorted, Head(rest)), Tail(rest))

\* SortFrom that reverses ties.
RECURSIVE UnstableSortFrom(_, _)
UnstableSortFrom(sorted, rest) ==
  IF rest = <<>> THEN sorted
  ELSE UnstableSortFrom(InsertBeforeEqual(sorted, Head(rest)), Tail(rest))

\* A sort by timestamp that does not keep the order of equal timestamps.
SortByTimestampUnstable(lin) == UnstableSortFrom(<<>>, lin)

\* lineage.sort((a, b) => a.timestamp - b.timestamp): Array.prototype.sort
\* is stable (ECMAScript 2019), so equal timestamps keep their order.
SortByTimestamp(lin) == SortFrom(<<>>, lin)

\* The whole useMemo callback.
HistoryLineage(img, all) ==
  LET w == Walk(WalkInit(img, all), all)
  IN SortByTimestamp(PushChildren(w.lineage, w.visited, Children(img, all)))

\* ------------------------------------------------------------------ state
VARIABLES
  image,           \* Editor prop: the focal record
  allImages,       \* Editor prop: the store given to the lineage
  curr,            \* historyLineage: loop variable
  visited,         \* historyLineage: Set of ids
  lineage,         \* historyLineage: the array before the final sort
  iters,           \* passes through the loop body so far
  historyLineage,  \* the value the useMemo callback returned
  lpc,             \* position inside the useMemo callback
  editorFile,      \* the file './components/Editor' of App.tsx 5 resolves to
  images,          \* App state: the store, most recent first; the characters
                   \* when the value is a string
  imagesType,      \* "array", or what setImages was given by the load effect
                   \* when the parsed document was no array
  selectedImage,   \* App state: GeneratedImage | null
  currentView,     \* App state: 'generate' | 'gallery' | 'editor'
  storage,         \* localStorage slot 'bananagen_db'
  queue,           \* setState calls made outside a click (the load effect, the
                   \* code after an await), in call order, not yet rendered
  apc,             \* effects that have not run yet: "load" and "save" (both
                   \* effects of the first render, then its save effect),
                   \* "saving" (the save effect of a later render), "idle"
                   \* (none); "crashed" once the tree is unmounted
  loading,         \* Generator state
  genError,        \* Generator state: error !== null
  isProcessing,    \* Editor state
  editError,       \* Editor state: error !== null
  requests,        \* gateway calls awaiting their promise, a bag
  nextId,          \* ids handed out so far, plus one
  lastEvent,       \* what the last step was when it was a render (with the
                   \* number of records it appended) or a deletion (with its id)
  logged,          \* console.error was called by the load effect of this page
  startup          \* what this page started from: the kind of the slot it
                   \* found, until a record is appended or deleted

lvars == <<image, allImages, curr, visited, lineage, iters, historyLineage, lpc>>

avars == <<editorFile, images, imagesType, selectedImage, currentView, storage,
           queue, apc, loading, genError, isProcessing, editError, requests,
           nextId, lastEvent, logged, startup>>

vars == <<lvars, avars>>

\* ------------------------------------------------------------ App: store
\* null: selectedImage === null, and a null held by a parsed array.
Null == Undefined

\* The id read from a value that has no id property: undefined.
NoId == 0

\* A value of a parsed document that is no object: each property read from
\* it is undefined.  JsonZero is a falsy one (0, false, ""), an element of a
\* stored array; JsonChar is a truthy one, a character of a parsed JSON
\* string, which the spread of App.tsx 32 puts into the array (a number that
\* is not 0, true and {} read the same).
JsonZero == [id |-> NoId, parentId |-> NoParent, json |-> "zero"]

JsonChar == [id |-> NoId, parentId |-> NoParent, json |-> "char"]

\* Values images can hold that are no records.
NonRecords == {Null, JsonZero, JsonChar}

\* A value as a condition: selectedImage && ... (App.tsx 67, 75).  null, 0,
\* false and "" are falsy; a record and a character are truthy.
Truthy(v) == v \notin {Null, JsonZero}

ViewModes == {"generate", "gallery", "editor"}

\* JSON.stringify of one element: a property that is undefined is left out.
ToJson(r) ==
  IF r \in NonRecords
  THEN [json |-> IF r = Null THEN "null" ELSE r.json]
  ELSE IF r.parentId = NoParent
       THEN [id |-> r.id]
       ELSE [id |-> r.id, parentId |-> r.parentId]

\* JSON.parse of one element: a missing property reads as undefined.
FromJson(o) ==
  IF "json" \in DOMAIN o
  THEN (IF o.json = "null" THEN Null ELSE IF o.json = "zero" THEN JsonZero ELSE JsonChar)
  ELSE [id |-> o.id,
        parentId |-> IF "parentId" \in DOMAIN o THEN o.parentId ELSE NoParent]

\* The slot 'bananagen_db': absent, the empty text, text that is not JSON,
\* JSON that is no array, or a JSON array.  JSON that is no array comes in
\* the kinds the code tells apart: a value without a length that cannot be
\* spread (null, {}, a number, a boolean), an object whose length is 0
\* ({"length":0}), and a JSON string, whose doc holds its characters.
AbsentSlot == [kind |-> "absent", doc |-> <<>>]

EmptySlot == [kind |-> "empty", doc |-> <<>>]

MalformedSlot == [kind |-> "malformed", doc |-> <<>>]

\* null, {}, a number, a boolean
NonArraySlot == [kind |-> "nonarray", doc |-> <<>>]

\* {"length":0}
LengthZeroSlot == [kind |-> "lengthZero", doc |-> <<>>]

\* JSON.stringify(images): a value that is no array is written back as the
\* text it was parsed from.
Stringify(imgs, type) ==
  IF type \in {"array", "string"}
  THEN [kind |-> type, doc |-> [i \in 1..Len(imgs) |-> ToJson(imgs[i])]]
  ELSE [kind |-> type, doc |-> <<>>]

\* "" and "a"
StringSlots == {Stringify(<<>>, "string"), Stringify(<<JsonChar>>, "string")}

NonArraySlots == {NonArraySlot, LengthZeroSlot} \cup StringSlots

\* The values of images that are no array
NonArrayTypes == {"nonarray", "lengthZero", "string"}

\* An id of a stored record that no call of uuidv4 or generateId of this
\* run returns.
StoredId == MaxRecords + 1

\* Arrays in the slot that no run of this App leaves there (the slot is
\* open to every script of the origin and to the developer tools): [null],
\* [0], and two records with one id (the second names it as its parentId
\* too).  The load effect takes them as it takes any text that parses
\* (App.tsx 19).
ForeignArrays ==
  {<<Null>>, <<JsonZero>>,
   <<[id |-> StoredId, parentId |-> NoParent],
     [id |-> StoredId, parentId |-> StoredId]>>}

ForeignSlots == {Stringify(a, "array") : a \in ForeignArrays}

\* The slot an earlier run of the App left with one generated record.
StoredSlot ==
  Stringify(<<[id |-> StoredId, parentId |-> NoParent]>>, "array")

\* Gallery.tsx 12, 28, 32-59: images.length === 0 returns the empty gallery,
\* which holds for [], for {"length":0} and for ""; null.length throws, a
\* value whose length is not 0 and that is no array reaches images.map,
\* which is no function, and the card of a null throws reading image.id.
GalleryRenders(imgs, type) ==
  \/ type = "lengthZero"
  \/ type = "string" /\ imgs = <<>>
  \/ type = "array" /\ Null \notin {imgs[i] : i \in 1..Len(imgs)}

\* App.tsx 32: [newImage, ...prev] throws when prev is not iterable; an
\* array and a string are iterable, and the result is an array.
Spreadable(type) == type \in {"array", "string"}

\* JSON.parse(saved) for a slot that parses
Parse(slot) ==
  [kind |-> slot.kind, items |-> [i \in 1..Len(slot.doc) |-> FromJson(slot.doc[i])]]

NoDoc == [kind |-> "none", items |-> <<>>]

\* Slots that hold no document, or a document the App wrote.
OwnSlots == {AbsentSlot, EmptySlot, MalformedSlot, StoredSlot}

\* The slots a page can find: the slots the App leaves behind are reached
\* from OwnSlots; NonArraySlots and ForeignSlots are the documents that
\* parse and that the load effect is given without a test.
InitialSlots == OwnSlots \cup NonArraySlots \cup ForeignSlots

\* App.tsx 16-23: what the load effect hands to setImages and whether it
\* calls console.error.  if (saved) is false for null and for ''; JSON.parse
\* throws on text that is not JSON and the catch block logs.
LoadResult(slot) ==
  IF slot.kind \in {"absent", "empty"}
  THEN [doc |-> NoDoc, logged |-> FALSE]
  ELSE IF slot.kind = "malformed"
       THEN [doc |-> NoDoc, logged |-> TRUE]
       ELSE [doc |-> Parse(slot), logged |-> FALSE]

\* The first append or deletion of a page: startup is over, whatever the
\* slot held.
Changed(st) == [kind |-> "over", changed |-> TRUE]

\* The page starts: the kind of slot it finds.
StartupOf(slot) == [kind |-> slot.kind, changed |-> FALSE]

\* RemoveById that also drops the children of the deleted record.
RemoveCascading(store, id) ==
  SelectSeq(store, LAMBDA r : r.id # id /\ r.parentId # id)

\* prev.filter(img => img.id !== id) in handleDeleteImage
RemoveById(store, id) ==
  SelectSeq(store, LAMBDA r : r.id # id)

\* <Button isLoading={...}>: a Button that is loading cannot be pressed.
ButtonEnabled(isLoading) == ~isLoading

\* <Generator> is rendered
GeneratorMounted(view) == view = "generate"

\* <Editor> is rendered
EditorMounted(view, sel) == view = "editor" /\ Truthy(sel)

\* A component that leaves the tree loses its state; the promise of a call
\* it started still settles, its setters then do nothing (live = FALSE).
DetachOne(r, genStays, edStays) ==
  [r EXCEPT !.live = r.live /\ (IF r.kind = "generate" THEN genStays ELSE edStays)]

\* The calls of reqs after the components that do not stay left the tree.
Detach(reqs, genStays, edStays) ==
  LET after == {DetachOne(r, genStays, edStays) : r \in BagToSet(reqs)}
      Before(m) == {r \in BagToSet(reqs) : DetachOne(r, genStays, edStays) = m}
      Live(m) == [m EXCEPT !.live = TRUE]
  IN [m \in after |->
        (IF m \in Before(m) THEN CopiesIn(m, reqs) ELSE 0)
          + (IF Live(m) # m /\ Live(m) \in Before(m) THEN CopiesIn(Live(m), reqs) ELSE 0)]

\* The same for the setState calls that wait for their render: a call of a
\* setter of a component that left the tree is dropped.
DetachQueue(q, genStays, edStays) ==
  SelectSeq([i \in 1..Len(q) |-> DetachOne(q[i], genStays, edStays)],
            LAMBDA u : u.op # "fail" \/ u.live)

\* The two Editor components of the repository.  App.tsx 5 imports
\* './components/Editor'; unnamed/part_000 is a file of a components
\* directory as well (it imports './Button' and '../types') and takes the
\* props App.tsx 68-72 passes.
EditorFiles == {"components/Editor.tsx", "unnamed/part_000"}

\* The allImages prop <Editor> receives: App.tsx 68-72 passes image, onBack
\* and onImageSave only, so the default of Editor.tsx 18 applies.
EditorAllImagesProp == <<>>

\* Generator.tsx 33 / Editor.tsx 165 / part_000 121: the values Date.now()
\* returns, the milliseconds of the clock at the call.  The sort compares
\* the values only, so as many instants as a store holds records stand for
\* every value: the calls return them in any order (the clock can be set
\* back), or one of them more than once.
Instants == 1..StoredId

\* The timestamps the records carry, by id (0: a value that is no record).
Timestamps == [0..StoredId -> Instants]

\* A record of App's store with the timestamp it carries.
WithTimestamp(r, t) == [id |-> r.id, parentId |-> r.parentId, timestamp |-> t[r.id]]

\* The history the editor shows for the selected record.
EditorHistory(t) == HistoryLineage(WithTimestamp(selectedImage, t), EditorAllImagesProp)

\* A render with the number of records it appended, a deletion with its id.
Event(op, id) == [op |-> op, id |-> id]

\* A step that is neither.
NoEvent == Event("none", 0)

\* State of the component tree at construction, before any effect ran.
AppConstructed ==
  /\ images = <<>>
  /\ imagesType = "array"
  /\ selectedImage = Null
  /\ currentView = "generate"
  /\ queue = <<>>
  /\ apc = "load"
  /\ loading = FALSE
  /\ genError = FALSE
  /\ isProcessing = FALSE
  /\ editError = FALSE
  /\ requests = EmptyBag
  /\ nextId = 1
  /\ lastEvent = NoEvent
  /\ logged = FALSE
  /\ startup = StartupOf(storage)

LineageIdle ==
  /\ image = Undefined
  /\ allImages = <<>>
  /\ curr = Undefined
  /\ visited = {}
  /\ lineage = <<>>
  /\ iters = 0
  /\ historyLineage = <<>>
  /\ lpc = "idle"

\* A page over a slot of any content.
Init ==
  /\ storage \in InitialSlots
  /\ editorFile \in EditorFiles
  /\ AppConstructed
  /\ LineageIdle

\* A page over a slot that holds no document or a document of the App, the
\* Editor being the file that the import of App.tsx 5 names in src.
OwnSlotInit ==
  /\ storage \in OwnSlots
  /\ editorFile = "components/Editor.tsx"
  /\ AppConstructed
  /\ LineageIdle

\* A page over such a slot with either Editor file.
OwnSlotAnyEditorInit ==
  /\ storage \in OwnSlots
  /\ editorFile \in EditorFiles
  /\ AppConstructed
  /\ LineageIdle

\* A setState call that waits for its render.  load: setImages(parsed) of
\* the load effect.  append: the three calls of handleImageGenerated and the
\* setLoading(false) / setIsProcessing(false) of the finally block.  fail:
\* setError(message) and the finally block.  setsView and setsSel turn FALSE
\* when a later click calls setCurrentView or setSelectedImage: the states
\* are plain values, the call made last gives the value rendered.
Update(op, doc, rec, req) ==
  [op |-> op, doc |-> doc, rec |-> rec, kind |-> req.kind, live |-> req.live,
   setsView |-> op = "append", setsSel |-> op = "append"]

NoRequest == [kind |-> "none", src |-> Null, live |-> FALSE]

\* App.tsx 19: setImages(JSON.parse(saved))
LoadUpdate(doc) == Update("load", doc, Null, NoRequest)

\* The updater of handleImageGenerated putting the record behind the others.
AppendLast(newImage, prev) == Append(prev, newImage)

\* An updater that writes the record over the latest one: the append that
\* completes second loses the record of the first.
PrependOverLatest(newImage, prev) ==
  IF prev = <<>> THEN <<newImage>> ELSE <<newImage>> \o Tail(prev)

\* App.tsx 32: prev => [newImage, ...prev]
Prepend(newImage, prev) == <<newImage>> \o prev

\* The updaters of setImages that wait in q, applied in call order to the
\* value st of images; threw when a spread met a value that is not iterable.
RECURSIVE ApplyQueue(_, _)
ApplyQueue(st, q) ==
  IF q = <<>> \/ st.threw
  THEN st
  ELSE IF Head(q).op = "load"
       THEN ApplyQueue([items |-> Head(q).doc.items, kind |-> Head(q).doc.kind,
                        threw |-> FALSE], Tail(q))
       ELSE IF Head(q).op = "append"
            THEN IF Spreadable(st.kind)
                 THEN ApplyQueue([items |-> Prepend(Head(q).rec, st.items),
                                  kind |-> "array", threw |-> FALSE], Tail(q))
                 ELSE [st EXCEPT !.threw = TRUE]
            ELSE ApplyQueue(st, Tail(q))

\* Calls in q of setCurrentView('editor') (App.tsx 33) that no later click
\* overrode.
ViewSetters(q) == {i \in 1..Len(q) : q[i].setsView}

\* Calls in q of setSelectedImage(newImage) (App.tsx 34), likewise.
SelSetters(q) == {i \in 1..Len(q) : q[i].setsSel}

\* currentView once q is rendered
QueuedView(q, view) == IF ViewSetters(q) = {} THEN view ELSE "editor"

\* selectedImage once q is rendered: the value of the last call
QueuedSelection(q, sel) ==
  IF SelSetters(q) = {}
  THEN sel
  ELSE q[CHOOSE i \in SelSetters(q) : \A j \in SelSetters(q) : j <= i].rec

\* A click called setCurrentView (view) or setSelectedImage (sel) after the
\* calls that wait in q.
Override(q, view, sel) ==
  [i \in 1..Len(q) |->
     [q[i] EXCEPT !.setsView = q[i].setsView /\ ~view,
                  !.setsSel = q[i].setsSel /\ ~sel]]

\* The calls waiting in q that settle the in-flight flag of the mounted
\* component of one kind, and those among them that report a failure.
Settling(q, kind) == {i \in 1..Len(q) : q[i].kind = kind /\ q[i].live}

Failing(q, kind) == {i \in Settling(q, kind) : q[i].op = "fail"}

\* React runs the effects that are pending before it handles a click and
\* before it renders again: the effects of the first render (App.tsx 15-29)
\* hand the parsed document to setImages and write images, [], to the slot;
\* the save effect of a later render writes images.
FlushedQueue ==
  IF apc = "load" /\ LoadResult(storage).doc # NoDoc
  THEN Append(queue, LoadUpdate(LoadResult(storage).doc))
  ELSE queue

FlushedLogged == IF apc = "load" THEN LoadResult(storage).logged ELSE logged

FlushedStorage ==
  IF apc \in {"load", "save", "saving"} THEN Stringify(images, imagesType) ELSE storage

\* The tree is mounted.
Mounted == apc # "crashed"

\* App.tsx 15-24: the load effect of the first render.
LoadEffect ==
  /\ apc = "load"
  /\ queue' = FlushedQueue
  /\ logged' = FlushedLogged
  /\ apc' = "save"
  /\ lastEvent' = NoEvent
  /\ UNCHANGED <<editorFile, images, imagesType, selectedImage, currentView,
                 storage, loading, genError, isProcessing, editError, requests,
                 nextId, startup>>
  /\ UNCHANGED lvars

\* App.tsx 27-29: the save effect of the first render, images = [].
SaveEffectOnMount ==
  /\ apc = "save"
  /\ storage' = Stringify(images, imagesType)
  /\ apc' = "idle"
  /\ lastEvent' = NoEvent
  /\ UNCHANGED <<editorFile, images, imagesType, selectedImage, currentView,
                 queue, loading, genError, isProcessing, editError, requests,
                 nextId, logged, startup>>
  /\ UNCHANGED lvars

\* An exception that no handler catches, thrown by a render (Gallery reading
\* images.length, images.map or image.id), by an updater of setImages (the
\* spread) or by an effect (setItem): the tree is unmounted.  The effects
\* that were pending ran before.
Crash ==
  /\ apc' = "crashed"
  /\ requests' = EmptyBag
  /\ queue' = <<>>
  /\ loading' = FALSE
  /\ genError' = FALSE
  /\ isProcessing' = FALSE
  /\ editError' = FALSE
  /\ lastEvent' = NoEvent
  /\ storage' = FlushedStorage
  /\ logged' = FlushedLogged
  /\ UNCHANGED <<editorFile, images, imagesType, selectedImage, currentView,
                 nextId, startup>>

\* A handler without its finally block.
FinallyMissing(flag) == flag

\* Generator.tsx 41-43 / Editor.tsx 174-176: finally { setLoading(false) },
\* the value the in-flight flag of a mounted component takes.
Finally(flag) == FALSE

\* The render of the setState calls that wait in queue, all in one render:
\* setImages(parsed) of the load effect (App.tsx 19), and the calls made
\* after an await (App.tsx 31-35, Generator.tsx 37-43, Editor.tsx 170-176).
\* An updater of setImages throws in this render when prev cannot be
\* spread; Gallery throws when it is shown and cannot read images.  The save
\* effect of the render is pending when images changed.
Render ==
  /\ apc \in {"saving", "idle"}
  /\ queue # <<>>
  /\ LET st == ApplyQueue([items |-> images, kind |-> imagesType, threw |-> FALSE], queue)
         view == QueuedView(queue, currentView)
         sel == QueuedSelection(queue, selectedImage)
         appended == {i \in 1..Len(queue) : queue[i].op = "append"}
         genStays == GeneratorMounted(currentView) /\ GeneratorMounted(view)
         edStays == EditorMounted(currentView, selectedImage) /\ EditorMounted(view, sel)
     IN IF st.threw \/ (view = "gallery" /\ ~GalleryRenders(st.items, st.kind))
        THEN Crash
        ELSE /\ images' = st.items
             /\ imagesType' = st.kind
             /\ currentView' = view
             /\ selectedImage' = sel
             /\ storage' = FlushedStorage
             /\ queue' = <<>>
             /\ apc' = IF \E i \in 1..Len(queue) : queue[i].op \in {"load", "append"}
                       THEN "saving" ELSE "idle"
             /\ loading' = (genStays /\ IF Settling(queue, "generate") # {}
                                        THEN Finally(loading) ELSE loading)
             /\ genError' = (genStays /\ (genError \/ Failing(queue, "generate") # {}))
             /\ isProcessing' = (edStays /\ IF Settling(queue, "edit") # {}
                                             THEN Finally(isProcessing) ELSE isProcessing)
             /\ editError' = (edStays /\ (editError \/ Failing(queue, "edit") # {}))
             /\ requests' = Detach(requests, genStays, edStays)
             /\ lastEvent' = Event("render", Cardinality(appended))
             /\ startup' = IF appended # {} THEN Changed(startup) ELSE startup
             /\ UNCHANGED <<editorFile, nextId, logged>>
  /\ UNCHANGED lvars

\* App.tsx 27-29: the save effect of a render whose images changed, run in
\* a task after that render; setItem returns.
SaveEffect ==
  /\ apc = "saving"
  /\ storage' = Stringify(images, imagesType)
  /\ apc' = "idle"
  /\ lastEvent' = NoEvent
  /\ UNCHANGED <<editorFile, images, imagesType, selectedImage, currentView,
                 queue, loading, genError, isProcessing, editError, requests,
                 nextId, logged, startup>>
  /\ UNCHANGED lvars

\* App.tsx 28: setItem throws, in the save effect of the first render or
\* of a later one: QuotaExceededError when the text does not fit what is
\* left of the quota of the origin (the url of one new record can cause
\* it), or the browser refuses the write.  Nothing catches it: the slot
\* keeps its value and the tree is unmounted.
SaveEffectThrows ==
  /\ apc \in {"save", "saving"}
  /\ apc' = "crashed"
  /\ requests' = EmptyBag
  /\ queue' = <<>>
  /\ loading' = FALSE
  /\ genError' = FALSE
  /\ isProcessing' = FALSE
  /\ editError' = FALSE
  /\ lastEvent' = NoEvent
  /\ UNCHANGED <<editorFile, images, imagesType, selectedImage, currentView,
                 storage, nextId, logged, startup>>
  /\ UNCHANGED lvars

\* A header whose Editor tab navigates as well.
NavigationTargetsWithEditor == ViewModes

\* The views setCurrentView is called with outside handleImageGenerated,
\* handleSelectImage and handleDeleteImage: 'generate' (Header.tsx 23, 36,
\* App.tsx 82) and 'gallery' (Header.tsx 44, App.tsx 70).  The Editor tab
\* of the header (Header.tsx 51-58) has no onClick.
NavigationTargets == {"generate", "gallery"}

\* setCurrentView(v): the Header's buttons (Header.tsx 23, 36, 44), the
\* Editor's onBack (App.tsx 70), the empty editor's button (App.tsx 82).
\* The Header is rendered from the first render on.  The render of a click
\* is made before the click returns; the calls waiting in queue are not
\* part of it.
Navigate(v) ==
  /\ Mounted
  /\ v \in NavigationTargets
  /\ LET genStays == GeneratorMounted(currentView) /\ GeneratorMounted(v)
         edStays == EditorMounted(currentView, selectedImage)
                      /\ EditorMounted(v, selectedImage)
     IN IF v = "gallery" /\ ~GalleryRenders(images, imagesType)
        THEN Crash
        ELSE /\ currentView' = v
             /\ loading' = (loading /\ genStays)
             /\ genError' = (genError /\ genStays)
             /\ isProcessing' = (isProcessing /\ edStays)
             /\ editError' = (editError /\ edStays)
             /\ requests' = Detach(requests, genStays, edStays)
             /\ queue' = Override(DetachQueue(FlushedQueue, genStays, edStays), TRUE, FALSE)
             /\ storage' = FlushedStorage
             /\ logged' = FlushedLogged
             /\ apc' = "idle"
             /\ lastEvent' = NoEvent
             /\ UNCHANGED <<editorFile, images, imagesType, selectedImage,
                            nextId, startup>>
  /\ UNCHANGED lvars

\* App.tsx 37-40, called by the card of img (Gallery.tsx 52).  <Editor> is
\* rendered when img is truthy.
HandleSelectImage(img) ==
  /\ Mounted
  /\ currentView = "gallery"
  /\ imagesType = "array"
  /\ img \in Range(images)
  /\ selectedImage' = img
  /\ currentView' = "editor"
  /\ queue' = Override(DetachQueue(FlushedQueue, FALSE, FALSE), TRUE, TRUE)
  /\ requests' = Detach(requests, FALSE, FALSE)
  /\ storage' = FlushedStorage
  /\ logged' = FlushedLogged
  /\ apc' = "idle"
  /\ lastEvent' = NoEvent
  /\ UNCHANGED <<editorFile, images, imagesType, loading, genError,
                 isProcessing, editError, nextId, startup>>
  /\ UNCHANGED lvars

\* IsSelected without the comparison of ids.
IsSelectedAny(sel, id) == sel # Null

\* handleDeleteImage without lines 44-47.
IsSelectedNever(sel, id) == FALSE

\* App.tsx 44: selectedImage?.id === id.  null?.id is undefined, and so is
\* the id of a value that is no record.
IsSelected(sel, id) == sel.id = id

\* App.tsx 43: prev.filter is a function of arrays only, and the callback
\* reads img.id of every element, which throws for a null.
Filterable(imgs, type) == type = "array" /\ Null \notin Range(imgs)

\* App.tsx 42-48 called with id, the render that follows and its save
\* effect: the call comes from a click, and the effects of a render caused
\* by a click run before the click returns.  The text written is a part of
\* the text the slot holds, so setItem returns.
HandleDeleteImage(id) ==
  /\ Mounted
  /\ LET sel == IF IsSelected(selectedImage, id) THEN Null ELSE selectedImage
         view == IF IsSelected(selectedImage, id) THEN "gallery" ELSE currentView
         genStays == GeneratorMounted(currentView) /\ GeneratorMounted(view)
         edStays == EditorMounted(currentView, selectedImage) /\ EditorMounted(view, sel)
     IN IF ~Filterable(images, imagesType)
        THEN Crash
        ELSE /\ images' = RemoveById(images, id)
             /\ selectedImage' = sel
             /\ currentView' = view
             /\ loading' = (loading /\ genStays)
             /\ genError' = (genError /\ genStays)
             /\ isProcessing' = (isProcessing /\ edStays)
             /\ editError' = (editError /\ edStays)
             /\ requests' = Detach(requests, genStays, edStays)
             /\ queue' = Override(DetachQueue(FlushedQueue, genStays, edStays),
                                  IsSelected(selectedImage, id),
                                  IsSelected(selectedImage, id))
             /\ storage' = Stringify(images', imagesType)
             /\ logged' = FlushedLogged
             /\ apc' = "idle"
             /\ lastEvent' = Event("delete", id)
             /\ startup' = Changed(startup)
             /\ UNCHANGED <<editorFile, imagesType, nextId>>
  /\ UNCHANGED lvars

\* Gallery.tsx 59: the delete button of the card of img calls
\* onDelete(image.id).
DeleteCard(img) ==
  /\ currentView = "gallery"
  /\ imagesType = "array"
  /\ img \in Range(images)
  /\ HandleDeleteImage(img.id)

\* Generator.tsx 18-26, up to the await.
StartGenerate ==
  /\ Mounted
  /\ GeneratorMounted(currentView)
  /\ ButtonEnabled(loading)
  /\ BagCardinality(requests) < MaxInFlight
  /\ loading' = TRUE
  /\ genError' = FALSE
  /\ requests' = requests (+) SetToBag({[kind |-> "generate", src |-> Null, live |-> TRUE]})
  /\ queue' = FlushedQueue
  /\ storage' = FlushedStorage
  /\ logged' = FlushedLogged
  /\ apc' = "idle"
  /\ lastEvent' = NoEvent
  /\ UNCHANGED <<editorFile, images, imagesType, selectedImage, currentView,
                 isProcessing, editError, nextId, startup>>
  /\ UNCHANGED lvars

\* Editor.tsx 146-158 / part_000 107-113, up to the await; image is the prop
\* of this render.
StartEdit ==
  /\ Mounted
  /\ EditorMounted(currentView, selectedImage)
  /\ ButtonEnabled(isProcessing)
  /\ BagCardinality(requests) < MaxInFlight
  /\ isProcessing' = TRUE
  /\ editError' = FALSE
  /\ requests' = requests (+) SetToBag({[kind |-> "edit", src |-> selectedImage, live |-> TRUE]})
  /\ queue' = FlushedQueue
  /\ storage' = FlushedStorage
  /\ logged' = FlushedLogged
  /\ apc' = "idle"
  /\ lastEvent' = NoEvent
  /\ UNCHANGED <<editorFile, images, imagesType, selectedImage, currentView,
                 loading, genError, nextId, startup>>
  /\ UNCHANGED lvars

\* uuidv4 that returns the same value on every call.
Uuidv4Repeating(handedOut) == 1

\* uuidv4(): a value that no earlier call returned.  Ids are numbered in the
\* order they are handed out; handedOut is nextId.
Uuidv4(handedOut) == handedOut

\* part_000 15: two runs of digits of Math.random(), taken as a value that
\* no earlier call returned.
GenerateId(handedOut) == handedOut

\* NewImage naming the new record itself as the parent of an edit.
NewImageSelfParent(req, id) ==
  [id |-> id,
   parentId |-> IF req.kind = "edit" THEN id ELSE NoParent]

\* Generator.tsx 28-35 / Editor.tsx 160-168: the record built after the
\* await.  image in Editor.tsx 167 is the prop of the render whose handler
\* was called, the record the editor showed at the click (req.src).
NewImage(req, id) ==
  [id |-> id,
   parentId |-> IF req.kind = "edit" THEN req.src.id ELSE NoParent]

\* part_000 116-123: the record built by the other Editor, which has no
\* parentId property.
NewImageOfPart000(req, id) ==
  [id |-> id, parentId |-> NoParent]

\* The record a fulfilled call gives, by the component that made the call.
RecordOf(req, handedOut) ==
  IF req.kind = "edit" /\ editorFile = "unnamed/part_000"
  THEN NewImageOfPart000(req, GenerateId(handedOut))
  ELSE NewImage(req, Uuidv4(handedOut))

\* part_000 114 passes image.url to editImageWithGemini, which throws on a
\* value that is no string (geminiService.ts 49): the edit of a value that
\* is no record is rejected.  Editor.tsx 156 passes the canvas.
CanResolve(req) ==
  ~(req.kind = "edit" /\ editorFile = "unnamed/part_000" /\ req.src \in NonRecords)

\* App.tsx 31-35: setImages(prev => [newImage, ...prev]),
\* setCurrentView('editor'), setSelectedImage(newImage), called after an
\* await: the calls wait for the next render.
HandleImageGenerated(newImage, req) == Update("append", NoDoc, newImage, req)

\* Generator.tsx 26-43 / Editor.tsx 158-176 / part_000 114-132 after the
\* await, the promise fulfilled: the id, the new record,
\* onImageGenerated, the finally block.  React renders in a later task.
GatewayResolves(req) ==
  /\ Mounted
  /\ BagIn(req, requests)
  /\ CanResolve(req)
  /\ nextId <= MaxRecords
  /\ queue' = Append(queue, HandleImageGenerated(RecordOf(req, nextId), req))
  /\ requests' = requests (-) SetToBag({req})
  /\ nextId' = nextId + 1
  /\ lastEvent' = NoEvent
  /\ UNCHANGED <<editorFile, images, imagesType, selectedImage, currentView,
                 storage, apc, loading, genError, isProcessing, editError,
                 logged, startup>>
  /\ UNCHANGED lvars

\* The same after the await, the promise rejected: missing API key, gateway
\* error, or a response without image data (geminiService.ts 83-97):
\* setError(message) and the finally block, which do nothing when the
\* component has left the tree.
GatewayRejects(req) ==
  /\ Mounted
  /\ BagIn(req, requests)
  /\ queue' = IF req.live
              THEN Append(queue, Update("fail", NoDoc, Null, req))
              ELSE queue
  /\ requests' = requests (-) SetToBag({req})
  /\ lastEvent' = NoEvent
  /\ UNCHANGED <<editorFile, images, imagesType, selectedImage, currentView,
                 storage, apc, loading, genError, isProcessing, editError,
                 nextId, logged, startup>>
  /\ UNCHANGED lvars

\* A page that has rendered its store: the effects of the first render ran
\* and the document they read, if any, was rendered.
StoreRendered ==
  /\ apc \notin {"load", "save"}
  /\ \A i \in 1..Len(queue) : queue[i].op # "load"

\* The page is loaded again, at any moment: a new tree over the same slot.
Reload ==
  /\ images' = <<>>
  /\ imagesType' = "array"
  /\ selectedImage' = Null
  /\ currentView' = "generate"
  /\ queue' = <<>>
  /\ apc' = "load"
  /\ loading' = FALSE
  /\ genError' = FALSE
  /\ isProcessing' = FALSE
  /\ editError' = FALSE
  /\ requests' = EmptyBag
  /\ lastEvent' = NoEvent
  /\ logged' = FALSE
  /\ startup' = StartupOf(storage)
  /\ UNCHANGED <<editorFile, storage, nextId>>
  /\ UNCHANGED lvars

Next ==
  \/ LoadEffect
  \/ SaveEffectOnMount
  \/ Render
  \/ SaveEffect
  \/ SaveEffectThrows
  \/ \E v \in ViewModes : Navigate(v)
  \/ \E img \in Range(images) : HandleSelectImage(img)
  \/ \E img \in Range(images) : DeleteCard(img)
  \/ StartGenerate
  \/ StartEdit
  \/ \E req \in BagToSet(requests) : GatewayResolves(req)
  \/ \E req \in BagToSet(requests) : GatewayRejects(req)
  \/ Reload

Spec == Init /\ [][Next]_vars

OwnSlotSpec == OwnSlotInit /\ [][Next]_vars

OwnSlotAnyEditorSpec == OwnSlotAnyEditorInit /\ [][Next]_vars

\* Ids number the records of this run by creation; the record of StoredSlot
\* was created by an earlier run.
CreatedBefore(a, b) == a # b /\ (a = StoredId \/ (b # StoredId /\ a < b))

\* The elements of a set of ids, largest first.
RECURSIVE Descending(_)
Descending(S) ==
  IF S = {} THEN <<>>
  ELSE LET m == CHOOSE x \in S : \A y \in S : y <= x
       IN <<m>> \o Descending(S \ {m})

\* The stores App builds by generations, edits and deletions: the newest
\* record first (App.tsx 32), a parentId that names a record created
\* earlier, deleted since or not (Editor.tsx 167); ids number the records
\* by creation.
AppStoreOf(ids, p) ==
  [i \in 1..Cardinality(ids) |->
     [id |-> Descending(ids)[i], parentId |-> p[Descending(ids)[i]]]]

\* The records of a store with the timestamps they carry.
Stamped(all, t) == [i \in 1..Len(all) |-> WithTimestamp(all[i], t)]

\* handleDeleteImage as an operation: a tree at rest over a store App builds
\* (AppStoreOf), any record of it or none selected, any view that
\* this selection allows, and the handler called with any id.
DeleteInit ==
  /\ \E ids \in SUBSET (1..MaxRecords) :
       \E p \in [ids -> 0..StoredId] :
         /\ \A i \in ids : p[i] = NoParent \/ CreatedBefore(p[i], i)
         /\ images = AppStoreOf(ids, p)
  /\ imagesType = "array"
  /\ selectedImage \in Range(images) \cup {Null}
  /\ currentView \in IF selectedImage = Null THEN {"generate", "gallery"} ELSE ViewModes
  /\ storage = Stringify(images, imagesType)
  /\ editorFile = "components/Editor.tsx"
  /\ queue = <<>>
  /\ apc = "idle"
  /\ loading = FALSE
  /\ genError = FALSE
  /\ isProcessing = FALSE
  /\ editError = FALSE
  /\ requests = EmptyBag
  /\ nextId = MaxRecords + 1
  /\ lastEvent = NoEvent
  /\ logged = FALSE
  /\ startup = StartupOf(storage)
  /\ LineageIdle

\* The handler called with the id of a record or with an id no record has.
DeleteNext == \E id \in 1..StoredId : HandleDeleteImage(id)

DeleteSpec == DeleteInit /\ [][DeleteNext]_vars

\* ---------------------------------------------- lineage, statement by statement
\* A store of length n given to the lineage: ids pairwise distinct (the data
\* model's invariant), the parentId of a record free: absent, dangling,
\* resolvable, its own id, or part of a cycle.  find and filter compare ids
\* for equality only, so stores are drawn up to a renaming of ids: the record
\* at index i carries id i, and the ids above n are the ones no record has.
StoreOf(n, f) ==
  [i \in 1..n |-> [id |-> i, parentId |-> f[i][1], timestamp |-> f[i][2]]]

\* Records are immutable, so the focal record is either one of the store's
\* records or a record whose id the store does not hold (detached); up to
\* renaming, the first id the store does not use.
Focals(all) ==
  Range(all) \cup {r \in GeneratedImage : r.id = Len(all) + 1}

LineageInit ==
  /\ \E n \in 0..MaxStore :
       \E f \in [1..n -> (Ids \cup {NoParent}) \X (1..MaxTime)] :
         allImages = StoreOf(n, f)
  /\ image \in Focals(allImages)
  /\ curr = WalkInit(image, allImages).curr
  /\ visited = WalkInit(image, allImages).visited
  /\ lineage = WalkInit(image, allImages).lineage
  /\ iters = WalkInit(image, allImages).iters
  /\ historyLineage = <<>>
  /\ lpc = "walk"
  /\ storage = AbsentSlot
  /\ editorFile = "components/Editor.tsx"
  /\ AppConstructed

WalkState == [curr |-> curr, visited |-> visited, lineage |-> lineage, iters |-> iters]

\* Editor.tsx 53-63, one iteration that does not break.
WalkIter ==
  /\ lpc = "walk"
  /\ LoopContinues(WalkState)
  /\ LET w == WalkBody(WalkState, allImages)
     IN /\ curr' = w.curr
        /\ visited' = w.visited
        /\ lineage' = w.lineage
        /\ iters' = w.iters
  /\ UNCHANGED <<image, allImages, historyLineage, lpc>>
  /\ UNCHANGED avars

\* Editor.tsx 53-54: curr is undefined, or the break is taken.
WalkExit ==
  /\ lpc = "walk"
  /\ ~LoopContinues(WalkState)
  /\ lpc' = "children"
  /\ UNCHANGED <<image, allImages, curr, visited, lineage, iters, historyLineage>>
  /\ UNCHANGED avars

\* Editor.tsx 66-71
CollectChildren ==
  /\ lpc = "children"
  /\ lineage' = PushChildren(lineage, visited, Children(image, allImages))
  /\ lpc' = "sort"
  /\ UNCHANGED <<image, allImages, curr, visited, iters, historyLineage>>
  /\ UNCHANGED avars

\* Editor.tsx 74
SortAndReturn ==
  /\ lpc = "sort"
  /\ historyLineage' = SortByTimestamp(lineage)
  /\ lpc' = "done"
  /\ UNCHANGED <<image, allImages, curr, visited, lineage, iters>>
  /\ UNCHANGED avars

LineageNext == WalkIter \/ WalkExit \/ CollectChildren \/ SortAndReturn

\* The lineage of a record of such a store (the selected record).
StoreLineageInit ==
  /\ \E ids \in SUBSET (1..MaxStore) :
       /\ \E p \in [ids -> 0..MaxStore] :
            /\ \A i \in ids : p[i] < i
            /\ \E t \in [ids -> 1..MaxStore] :
                 allImages = Stamped(AppStoreOf(ids, p), t)
  /\ image \in Range(allImages)
  /\ curr = WalkInit(image, allImages).curr
  /\ visited = WalkInit(image, allImages).visited
  /\ lineage = WalkInit(image, allImages).lineage
  /\ iters = WalkInit(image, allImages).iters
  /\ historyLineage = <<>>
  /\ lpc = "walk"
  /\ storage = AbsentSlot
  /\ editorFile = "components/Editor.tsx"
  /\ AppConstructed

StoreLineageSpec == StoreLineageInit /\ [][LineageNext]_vars

LineageSpec == LineageInit /\ [][LineageNext]_vars

\* The callback is synchronous code: once entered it runs to its return.
LineageFairSpec == LineageSpec /\ WF_vars(LineageNext)

\* ------------------------------------------------------- lineage properties
Returned == lpc = "done"

\* The ancestors the walk found, oldest first: lineage[1..iters-1]; the
\* focal record sits at lineage[iters].
AncestorsFound == {lineage[k] : k \in 1..(iters - 1)}

ChildrenInStore == {s \in Range(allImages) : s.parentId = image.id}

\* g's parent is a store record that is a child of the focal record.
IsGrandchild(g) ==
  \E c \in Range(allImages) : c.parentId = image.id /\ g.parentId = c.id

PosIn(seq, r) == CHOOSE i \in 1..Len(seq) : seq[i] = r

\* C1: the returned lineage holds no two records with the same id, for every
\* focal record and every store, dangling and cyclic parentIds included.
C1_NoDuplicateIds ==
  Returned =>
    \A i, j \in 1..Len(historyLineage) :
      i # j => historyLineage[i].id # historyLineage[j].id

\* C1 witness: the walk left the loop through the break (a parentId cycle)
\* and a child of the focal record was skipped because it is an ancestor.
C1_Witness ==
  /\ Returned
  /\ curr # Undefined
  /\ \E c \in ChildrenInStore : c \in AncestorsFound
  /\ Len(historyLineage) >= 2

\* C2: the ancestor walk never makes more than |S|+1 passes and it ends, on
\* every store, one with a parentId cycle included.
C2_WalkTerminates ==
  /\ [](iters <= Len(allImages) + 1)
  /\ <>(lpc # "walk")

\* C2 witness: a detached focal record whose ancestors are all of a cyclic
\* store: |S|+1 passes, then the break.
C2_Witness ==
  /\ lpc = "children"
  /\ curr # Undefined
  /\ Len(allImages) >= 2
  /\ iters = Len(allImages) + 1

\* C3: the returned lineage contains the focal record, in the store or not.
C3_ContainsFocal ==
  Returned => \E i \in 1..Len(historyLineage) : historyLineage[i] = image

\* C3 witness: a detached focal record with a resolvable parent.
C3_Witness ==
  /\ Returned
  /\ image \notin Range(allImages)
  /\ Len(historyLineage) >= 2

\* C4: for a store that is a chain A (no parent), B (parent A), C (parent B)
\* with increasing timestamps, the lineage of B is exactly <<A, B, C>>.
C4_ChainScenario ==
  \A a, c \in Range(allImages) :
    ( /\ Returned
      /\ Len(allImages) = 3
      /\ image \in Range(allImages)
      /\ a.parentId = NoParent
      /\ image.parentId = a.id
      /\ c.parentId = image.id
      /\ a.timestamp < image.timestamp
      /\ image.timestamp < c.timestamp )
    => historyLineage = <<a, image, c>>

\* C4 witness: the scenario itself, in the order App keeps it: <<C, B, A>>.
C4_Witness ==
  /\ Returned
  /\ Len(allImages) = 3
  /\ allImages[3].parentId = NoParent
  /\ allImages[2] = image
  /\ image.parentId = allImages[3].id
  /\ allImages[1].parentId = image.id
  /\ allImages[3].timestamp < image.timestamp
  /\ image.timestamp < allImages[1].timestamp
  /\ Len(historyLineage) = 3

\* C6: the returned lineage is the array built by the walk and the children
\* step, ordered by timestamp ascending, and records with equal timestamps
\* keep the order they had before the sort: ancestors from the oldest to
\* the focal record, then the children in store order.
C6_SortedStable ==
  Returned =>
    /\ Len(historyLineage) = Len(lineage)
    /\ Range(historyLineage) = Range(lineage)
    /\ \A i, j \in 1..Len(historyLineage) :
         i < j =>
           /\ historyLineage[i].timestamp <= historyLineage[j].timestamp
           /\ historyLineage[i].timestamp = historyLineage[j].timestamp
                => PosIn(lineage, historyLineage[i]) < PosIn(lineage, historyLineage[j])
    /\ lineage[iters] = image
    /\ \A k \in 2..iters : lineage[k].parentId = lineage[k - 1].id
    /\ \A k \in (iters + 1)..Len(lineage) :
         /\ lineage[k] \in ChildrenInStore
         /\ \A l \in (k + 1)..Len(lineage) :
              PosIn(allImages, lineage[k]) < PosIn(allImages, lineage[l])

\* C6 witness: two children with the focal record's timestamp, so that three
\* records tie and the sort has to keep focal, child, child in that order.
C6_Witness ==
  /\ Returned
  /\ \E k, l \in (iters + 1)..Len(lineage) :
       /\ k < l
       /\ lineage[k].timestamp = image.timestamp
       /\ lineage[l].timestamp = image.timestamp

\* C7 as stated: the length of the lineage is between 1 and |S|.
C7_Original ==
  Returned =>
    /\ Len(historyLineage) >= 1
    /\ Len(historyLineage) <= Len(allImages)

\* C7 amended: the length is at least 1 and at most |S|+1, and at most |S|
\* when the store holds a record with the focal record's id.
C7_LengthBounds ==
  Returned =>
    /\ Len(historyLineage) >= 1
    /\ Len(historyLineage) <= Len(allImages) + 1
    /\ image.id \in IdsOf(allImages) => Len(historyLineage) <= Len(allImages)

\* C7 witness: a detached focal record over a non-empty store, every store
\* record in its lineage.
C7_Witness ==
  /\ Returned
  /\ image.id \notin IdsOf(allImages)
  /\ Len(allImages) >= 1
  /\ Len(historyLineage) = Len(allImages) + 1

\* C8: a focal record whose parentId matches no store record: the walk
\* stops after it, and the lineage is the focal record together with
\* exactly the store records whose parentId is its id.
C8_DanglingParent ==
  ( /\ Returned
    /\ image.parentId # NoParent
    /\ image.parentId \notin IdsOf(allImages) )
  => /\ iters = 1
     /\ curr = Undefined
     /\ Range(historyLineage) = {image} \cup ChildrenInStore
     /\ Len(historyLineage) = Cardinality({image} \cup ChildrenInStore)

\* C8 witness: a dangling focal record with a child in the store.
C8_Witness ==
  /\ Returned
  /\ image.parentId # NoParent
  /\ image.parentId \notin IdsOf(allImages)
  /\ ChildrenInStore # {}
  /\ Len(historyLineage) >= 2

\* C9 as stated: a grandchild of the focal record is never in the lineage
\* unless it is an ancestor of the focal record or the focal record.
C9_Original ==
  Returned =>
    \A g \in Range(historyLineage) :
      IsGrandchild(g) => (g = image \/ g \in AncestorsFound)

\* C9 amended: a grandchild is in the lineage only if it is an ancestor of
\* the focal record, the focal record, or a direct child of a focal record
\* that is its own parent.
C9_OneGenerationDown ==
  Returned =>
    \A g \in Range(historyLineage) :
      IsGrandchild(g) =>
        \/ g = image
        \/ g \in AncestorsFound
        \/ (g.parentId = image.id /\ image.parentId = image.id)

\* C9 witness: the store holds a child and a grandchild of the focal record;
\* the child is returned, the grandchild is not.
C9_Witness ==
  /\ Returned
  /\ \E g \in Range(allImages) :
       /\ IsGrandchild(g)
       /\ g \notin Range(historyLineage)
  /\ \E c \in ChildrenInStore : c \in Range(historyLineage)

\* --------------------------------------------------------- store properties
\* C5: while the editor shows record R, the history it displays is the
\* lineage of R over the full current store, whatever timestamps the
\* records carry.
C5_HistoryOverFullStore ==
  (editorFile = "components/Editor.tsx" /\ EditorMounted(currentView, selectedImage))
    => \A t \in Timestamps :
         EditorHistory(t) = HistoryLineage(WithTimestamp(selectedImage, t), Stamped(images, t))

\* C10: a deletion removes the record with the given id and nothing else:
\* every other record stays, with every field (a parentId naming the deleted
\* record included) and in the same relative order; children of the deleted
\* record are not removed.
C10_DeleteIsNotCascading ==
  [][\A img \in Range(images) :
       (DeleteCard(img) /\ apc' # "crashed") =>
         /\ \A r \in Range(images) : r.id # img.id => r \in Range(images')
         /\ \A r \in Range(images') : r \in Range(images) /\ r.id # img.id
         /\ \A i, j \in 1..Len(images') :
              i < j => PosIn(images, images'[i]) < PosIn(images, images'[j])
         /\ \A r \in Range(images) :
              (r.parentId = img.id /\ r.id # img.id) =>
                \E k \in 1..Len(images') :
                  images'[k].id = r.id /\ images'[k].parentId = img.id]_vars

\* C10 witness: the record deleted last is gone and a record naming it as
\* its parent is still in the store, beside an unrelated record.
C10_Witness ==
  /\ lastEvent.op = "delete"
  /\ lastEvent.id # NoId
  /\ lastEvent.id \notin IdsOf(images)
  /\ \E r \in Range(images) : r.parentId = lastEvent.id
  /\ \E r \in Range(images) : r.parentId # lastEvent.id

\* C11: a generate or edit request that fails appends no record and leaves
\* the in-memory store as it was, and the failure is recorded as the error
\* message of the control that issued the request: the step of the failure
\* calls setError of a mounted control, for the next render to show.
C11_FailureLeavesStoreAndReports ==
  [][\A req \in BagToSet(requests) :
       GatewayRejects(req) =>
         /\ images' = images
         /\ imagesType' = imagesType
         /\ \A k \in 1..Len(queue') : queue'[k].op # "append" \/ k <= Len(queue)
         /\ Failing(queue', req.kind) # {}]_vars

\* Gateway calls of one control whose promise has not settled.
InFlight(kind) ==
  [r \in {x \in BagToSet(requests) : x.kind = kind} |-> CopiesIn(r, requests)]

\* C12: at most one request of the generator form and at most one request of
\* the editor's AI-edit button is outstanding at any time.
C12_OneRequestPerControl ==
  /\ BagCardinality(InFlight("generate")) <= 1
  /\ BagCardinality(InFlight("edit")) <= 1

\* C13: when the slot holds text that cannot be parsed, startup does not
\* fail (the tree stays mounted), the failure is logged, and the in-memory
\* store is the empty collection, until the first append or deletion.
C13_MalformedStartsEmpty ==
  (startup.kind = "malformed" /\ apc # "load") =>
    /\ logged
    /\ apc # "crashed"
    /\ images = <<>>
    /\ imagesType = "array"

\* C14: when the slot parses to something that is not an array, the
\* document is discarded on load: once startup is over the in-memory store
\* is the empty collection (until the first append).
C14_IncompatibleDiscarded ==
  (startup.kind \in NonArrayTypes /\ StoreRendered /\ ~startup.changed) =>
    /\ images = <<>>
    /\ imagesType = "array"
    /\ apc # "crashed"

\* C15: after any appends and deletions of a page, the slot holds a text
\* that reads back as the records of the store, in the same order and with
\* the same fields: a page loaded again, at any moment, has the store of the
\* page before it.
C15_RoundTrip ==
  (startup.changed /\ imagesType = "array") =>
    /\ storage.kind = "array"
    /\ Parse(storage).items = images

\* C16: in every reachable state no two records of the store have the same
\* id.
C16_UniqueIds ==
  \A i, j \in 1..Len(images) :
    (i # j /\ images[i] \notin NonRecords /\ images[j] \notin NonRecords)
      => images[i].id # images[j].id

\* C16 witness: two completions were rendered at once in front of the
\* record the slot held: three records, three ids.
C16_Witness ==
  /\ lastEvent = [op |-> "render", id |-> 2]
  /\ Len(images) = 3
  /\ Cardinality(IdsOf(images)) = 3
  /\ images[3].id = StoredId

\* C17: a record produced by a successful edit carries as parentId the id of
\* the record the editor showed when the edit was requested, and a record
\* produced by an original generation has no parentId.
C17_ParentIdOfNewRecords ==
  [][\A req \in BagToSet(requests) :
       GatewayResolves(req) =>
         /\ req.kind = "edit" =>
              queue'[Len(queue')].rec.parentId = req.src.id
         /\ req.kind = "generate" =>
              queue'[Len(queue')].rec.parentId = NoParent]_vars

\* The records handleImageGenerated was called with and that wait in q, the
\* one of the last call first.
RECURSIVE Waiting(_)
Waiting(q) ==
  IF q = <<>> THEN <<>>
  ELSE IF q[Len(q)].op = "append"
       THEN <<q[Len(q)].rec>> \o Waiting(SubSeq(q, 1, Len(q) - 1))
       ELSE Waiting(SubSeq(q, 1, Len(q) - 1))

\* The store the waiting records are put in front of: the document read by
\* the load effect when it waits as well (images is [] then).
Behind(q) ==
  IF \E i \in 1..Len(q) : q[i].op = "load"
  THEN (CHOOSE u \in Range(q) : u.op = "load").doc.items
  ELSE images

\* A record this run of the App created (ids number the records by
\* creation; the record the slot held has another id).
CreatedHere(r) == r.id \in 1..MaxRecords

\* C18: an append puts the new record at the front and leaves the records
\* that were there, and their order, as they were; so the records the App
\* appended are always ordered from the most recent append to the oldest,
\* in front of whatever the slot held without them.
C18_AppendAtFront ==
  /\ [](\A i, j \in 1..Len(images) :
           (i < j /\ CreatedHere(images[j])) =>
             (CreatedHere(images[i]) /\ images[i].id > images[j].id))
  /\ [][(Render /\ apc' # "crashed") => images' = Waiting(queue) \o Behind(queue)]_vars

\* C18 witness: a record was just appended in front of the record appended
\* before it, both in front of the record the slot held.
C18_Witness ==
  /\ lastEvent = [op |-> "render", id |-> 1]
  /\ Len(images) = 3
  /\ CreatedHere(images[1])
  /\ CreatedHere(images[2])
  /\ images[1].id > images[2].id
  /\ images[3].id = StoredId

\* C19: removing an id that no record of the store has leaves the store,
\* the selected record and the current view unchanged.
C19_RemoveAbsentIsNoOp ==
  [][\A id \in 1..StoredId :
       (HandleDeleteImage(id) /\ id \notin IdsOf(images)) =>
         /\ images' = images
         /\ selectedImage' = selectedImage
         /\ currentView' = currentView]_vars

\* C19 witness: the handler was just called with an id that no record ever
\* had, with records in the store and one of them shown by the editor.
C19_Witness ==
  /\ lastEvent = [op |-> "delete", id |-> StoredId]
  /\ Len(images) >= 2
  /\ selectedImage # Null
  /\ currentView = "editor"

\* A slot that holds a collection of records with one id each.
WellFormed(slot) ==
  /\ slot.kind = "array"
  /\ slot.doc # <<>>
  /\ \A i \in 1..Len(slot.doc) : Parse(slot).items[i] \notin NonRecords
  /\ \A i, j \in 1..Len(slot.doc) : i # j => slot.doc[i].id # slot.doc[j].id

\* C20: no step of startup (the effects of the first render, the render
\* of the loaded document and its save effect) changes a slot that holds a
\* well-formed collection; startup never writes an empty collection over it.
C20_SlotKeptDuringStartup ==
  [][((LoadEffect \/ SaveEffectOnMount \/ Render \/ SaveEffect)
        /\ ~startup.changed /\ ~startup'.changed /\ WellFormed(storage))
       => storage' = storage]_vars

\* C21: with a generation and an edit outstanding at once, the completion
\* of one hands its record to handleImageGenerated and leaves the other
\* call outstanding and the records that wait for their render waiting; the
\* render puts every waiting record into the store and keeps every record
\* of the store, whether it renders the two completions one by one or both
\* at once.
C21_ConcurrentAppendsBothKept ==
  /\ [][\A req \in BagToSet(requests) :
          GatewayResolves(req) =>
            /\ Len(queue') = Len(queue) + 1
            /\ SubSeq(queue', 1, Len(queue)) = queue
            /\ queue'[Len(queue')].op = "append"
            /\ \A k \in 1..Len(queue) : queue'[Len(queue')].rec # queue[k].rec
            /\ queue'[Len(queue')].rec \notin Range(images)
            /\ BagCardinality(requests') = BagCardinality(requests) - 1
            /\ CopiesIn(req, requests') = CopiesIn(req, requests) - 1
            /\ \A r \in BagToSet(requests) :
                 r # req => CopiesIn(r, requests') = CopiesIn(r, requests)]_vars
  /\ [][(Render /\ apc' # "crashed") =>
          /\ \A r \in Range(images) : r \in Range(images')
          /\ \A k \in 1..Len(queue) :
               queue[k].op = "append" => queue[k].rec \in Range(images')
          /\ Len(images') = Len(images) + Len(Waiting(queue)) + Len(Behind(queue))
                              - Len(images)]_vars

\* C21 witness: the edit completed and then the generation, both before
\* React rendered, so both calls were outstanding at once; one render put
\* both records in front of the record that was there.
C21_Witness ==
  /\ lastEvent = [op |-> "render", id |-> 2]
  /\ Len(images) = 3
  /\ images[1].parentId = NoParent
  /\ images[2].parentId = images[3].id
  /\ images[2].parentId # NoParent

\* C22: whenever a record is selected, a record with its id is in the
\* store; a deletion of the selected record clears the selection and sets
\* the view to the gallery.
C22_SelectedIsInStore ==
  /\ [](selectedImage # Null => selectedImage.id \in IdsOf(images))
  /\ [][\A img \in Range(images) :
          (DeleteCard(img) /\ selectedImage # Null /\ selectedImage.id = img.id) =>
            /\ selectedImage' = Null
            /\ currentView' = "gallery"
            /\ img.id \notin IdsOf(images')]_vars

\* C22 witness: the record that was selected was just deleted from a store
\* of several records: nothing is selected, the gallery is shown.
C22_Witness ==
  /\ lastEvent.op = "delete"
  /\ lastEvent.id \in 1..MaxRecords
  /\ lastEvent.id \notin IdsOf(images)
  /\ images # <<>>
  /\ selectedImage = Null
  /\ currentView = "gallery"

\* C23: whenever the current view is the editor a record is selected; the
\* editor's 'No image selected' state is never reached.
C23_EditorHasSelection ==
  currentView = "editor" => Truthy(selectedImage)

\* C23 witness: the editor shows the record of an edit that was just
\* rendered, after the record it was made from was deleted in the gallery.
C23_Witness ==
  /\ lastEvent = [op |-> "render", id |-> 1]
  /\ currentView = "editor"
  /\ selectedImage = images[1]
  /\ selectedImage.parentId # NoParent
  /\ selectedImage.parentId \notin IdsOf(images)

\* C24: in a store built from the empty store by generations, edits and
\* deletions, following parentId from any record never comes back to a
\* record already visited (the walk ends at a record without parent or at
\* a dangling parentId), and every parentId names a record created before
\* the record that carries it.
C24_NoParentCycles ==
  \A r \in Range(images) :
    /\ Walk(WalkInit(r, images), images).curr = Undefined
    /\ r.parentId # NoParent => CreatedBefore(r.parentId, r.id)

\* C24 witness: an edit of an edit whose root was deleted: a chain of two
\* records ending in a dangling parentId.
C24_Witness ==
  /\ Len(images) = 2
  /\ images[1].parentId = images[2].id
  /\ images[2].parentId # NoParent
  /\ images[2].parentId \notin IdsOf(images)

\* Calls of one control issued by the component that is mounted now.
LiveInFlight(kind) == {r \in BagToSet(InFlight(kind)) : r.live}

\* C25: the in-flight flag of a control is true only while a request of the
\* mounted component is outstanding or its completion waits for its render;
\* the completion of such a request, with success or with failure, calls
\* the setter of the flag, and the render that follows leaves the flag
\* false.
C25_FlagFollowsRequest ==
  /\ [](loading => (LiveInFlight("generate") # {} \/ Settling(queue, "generate") # {}))
  /\ [](isProcessing => (LiveInFlight("edit") # {} \/ Settling(queue, "edit") # {}))
  /\ [][\A req \in BagToSet(requests) :
          ((GatewayResolves(req) \/ GatewayRejects(req)) /\ req.live) =>
            Len(queue') \in Settling(queue', req.kind)]_vars
  /\ [][(Render /\ apc' # "crashed") =>
          /\ Settling(queue, "generate") # {} => (loading /\ ~loading')
          /\ Settling(queue, "edit") # {} => (isProcessing /\ ~isProcessing')]_vars

\* C25 witness: the failure of an edit was just rendered in the mounted
\* editor: the flag is back to false and the error is shown, while a
\* generation started earlier in the generator is still outstanding.
C25_Witness ==
  /\ lastEvent = [op |-> "render", id |-> 0]
  /\ EditorMounted(currentView, selectedImage)
  /\ editError
  /\ ~isProcessing
  /\ InFlight("generate") # EmptyBag
  /\ InFlight("edit") = EmptyBag

====
